---- MODULE Spec2Model ----
\* Movie search UI (App.jsx) and search tracker / trending reader (appwrite.js)
\* modelled as a state machine: React state, the debounce timer, the
\* fetchMovies runs in flight, and the remote document collection.
EXTENDS Integers, Sequences, FiniteSets, TLC

VARIABLES
  mounted,              \* the App component has run its mount effects
  searchTerm,           \* useState: raw input
  debouncedSearchTerm,  \* useState: active term
  errorMessage,         \* useState
  movieList,            \* useState
  isLoading,            \* useState
  effectTerm,           \* the debouncedSearchTerm the effect of App.jsx 100-102 last ran for
  timer,                \* ms left on the pending useDebounce timeout, or NoTimer
  runs,                 \* fetchMovies invocations in flight, in start order
  documents,            \* the remote collection, in creation order
  nextId,               \* ID.unique() source
  trending,             \* outcome of the last getTrendingMovies call
  quiet,                \* history: ms since the last keystroke (capped at DELAY)
  burstFetches,         \* history: fetches issued since the last keystroke or firing
  burstLen,             \* history: keystrokes of the current burst (2: two or more)
  burstTime,            \* history: ms since the first keystroke of the burst (capped at DELAY)
  tracked,              \* history: updateSearchCount calls made, per term
  settled               \* history: the fetchMovies run that settled last

vars == <<mounted, searchTerm, debouncedSearchTerm, errorMessage, movieList,
          isLoading, effectTerm, timer, runs, documents, nextId, trending,
          quiet, burstFetches, burstLen, burstTime, tracked, settled>>

uiVars == <<searchTerm, debouncedSearchTerm, errorMessage, movieList, isLoading>>
histVars == <<quiet, burstFetches, burstLen, burstTime>>

\* ---------------------------------------------------------------- bounds
MaxInFlight == 2
MaxTracked == 1
MaxCalls == 3
MaxRaceCalls == 4
MaxStoreLen == 6
MaxCount == 2

\* ------------------------------------------------------------- constants
DELAY == 500
TRENDING_LIMIT == 5
TMDB_IMAGE_BASE_URL == "https://image.tmdb.org/t/p/w500"
API_BASE_URL == "https://api.themoviedb.org/3/"
FETCH_ERROR == "Error fetching movies, please try again later."
FAILED_FETCH == "Failed to fetch movies"

\* JavaScript null / undefined, kept apart from every string of the model
Null == "<null>"
Undefined == "<undefined>"
NoTimer == -1
NotCalled == [status |-> "not called", defined |-> FALSE, value |-> <<>>]

\* JavaScript truthiness of a string-or-null value
Truthy(v) == v \notin {Null, Undefined, ""}

\* ---------------------------------------------------------------- inputs
Terms == {"", "a b"}
BurstTerms == {"", "a", "a b"}
CallTerms == {"a", "a b"}
TickSteps == {250, 500}

m1 == [id |-> 1, poster_path |-> "/p1.jpg"]
m2 == [id |-> 2, poster_path |-> Null]
m3 == [id |-> 3, poster_path |-> Undefined]
m4 == [id |-> 4, poster_path |-> ""]

Movies == {m1, m2, m3, m4}

ResultLists == {<<>>, <<m1, m2>>}

\* what fetch() settles with: a rejection, or a response with a status
Responses == {[kind |-> "reject", ok |-> FALSE, status |-> 0],
              [kind |-> "response", ok |-> FALSE, status |-> 401],
              [kind |-> "response", ok |-> FALSE, status |-> 500],
              [kind |-> "response", ok |-> TRUE, status |-> 200]}

\* what response.json() settles with: a rejection (malformed body) or a parsed
\* body; hasResults tells whether the body has a results array at all
Bodies == {[kind |-> "reject", Response |-> Undefined, Error |-> Undefined,
            hasResults |-> FALSE, results |-> <<>>],
           [kind |-> "data", Response |-> "False", Error |-> "Movie not found!",
            hasResults |-> FALSE, results |-> <<>>],
           [kind |-> "data", Response |-> "False", Error |-> Undefined,
            hasResults |-> FALSE, results |-> <<>>],
           [kind |-> "data", Response |-> Undefined, Error |-> Undefined,
            hasResults |-> FALSE, results |-> <<>>]}
          \cup {[kind |-> "data", Response |-> Undefined, Error |-> Undefined,
                 hasResults |-> TRUE, results |-> r] : r \in ResultLists}

\* ------------------------------------------------------- pure functions
\* encodeURI on the characters the inputs use: letters pass, a space is escaped
EncodeChar(c) == IF c = " " THEN "%20" ELSE c

RECURSIVE encodeURI(_)
encodeURI(s) ==
  IF s = "" THEN ""
  ELSE EncodeChar(SubSeq(s, 1, 1)) \o encodeURI(SubSeq(s, 2, Len(s)))

\* Endpoint with the test on the query dropped
EndpointAlwaysSearch(query) ==
  API_BASE_URL \o "/search/movie?query=" \o encodeURI(query)

\* App.jsx 55-57: the endpoint fetchMovies requests for a query
Endpoint(query) ==
  IF Truthy(query)
    THEN API_BASE_URL \o "/search/movie?query=" \o encodeURI(query)
    ELSE API_BASE_URL \o "/discover/movie?sort_by=popularity.desc"

\* PosterUrl with the test on poster_path dropped
PosterUrlUnchecked(movie) == TMDB_IMAGE_BASE_URL \o "/" \o movie.poster_path

\* appwrite.js 72-74: poster_url of a created document
PosterUrl(movie) ==
  IF Truthy(movie.poster_path)
    THEN TMDB_IMAGE_BASE_URL \o "/" \o movie.poster_path
    ELSE Null

\* appwrite.js 67-75: the data createDocument is given
NewDocument(id, term, movie) ==
  [id |-> id, searchTerm |-> term, count |-> 1,
   movie_id |-> movie.id, poster_url |-> PosterUrl(movie)]

\* ------------------------------------------------- the document store
Range(s) == {s[i] : i \in 1..Len(s)}
Min(a, b) == IF a < b THEN a ELSE b
Prefix(s, n) == SubSeq(s, 1, Min(n, Len(s)))

\* Query.equal("searchTerm", term)
EqualSearchTerm(docs, term) == {d \in Range(docs) : d.searchTerm = term}

\* Query.orderDesc("count"): every order of D with counts non-increasing;
\* the order among equal counts is the store's own and is left open
RECURSIVE OrderDescCount(_)
OrderDescCount(D) ==
  IF D = {} THEN {<<>>}
  ELSE UNION {{<<d>> \o r : r \in OrderDescCount(D \ {d})} :
                d \in {e \in D : \A f \in D : f.count <= e.count}}

\* updateDocument that replaces the document's data by the data it is given
UpdateDocumentReplaces(docs, id, count) ==
  [i \in 1..Len(docs) |->
     IF docs[i].id = id
       THEN [docs[i] EXCEPT !.count = count, !.movie_id = 0, !.poster_url = Null]
       ELSE docs[i]]

\* updateDocument(id, {count}): only the count of that document changes
UpdateDocument(docs, id, count) ==
  [i \in 1..Len(docs) |->
     IF docs[i].id = id THEN [docs[i] EXCEPT !.count = count] ELSE docs[i]]

\* createDocument on a collection that refuses a second record for a searchTerm
CreateDocumentUnique(docs, doc) ==
  IF \E d \in Range(docs) : d.searchTerm = doc.searchTerm THEN docs ELSE Append(docs, doc)

\* createDocument(id, data)
CreateDocument(docs, doc) == Append(docs, doc)

\* ------------------------------------------------------- fetchMovies runs
NoMovie == [id |-> 0, poster_path |-> Undefined]
NoReq == [op |-> "none", id |-> 0, count |-> 0, data |-> NewDocument(0, "", NoMovie)]
NoRun == [outcome |-> "none", via |-> "none", query |-> "",
          results |-> <<>>, calls |-> <<>>, alone |-> FALSE]

\* a fetchMovies run right after its synchronous prefix: the request is in flight
NewRun(query) ==
  [caller |-> "fetchMovies", query |-> query, endpoint |-> Endpoint(query),
   pc |-> "fetch", results |-> <<>>, term |-> "", movie |-> NoMovie,
   req |-> NoReq, calls |-> <<>>, alone |-> TRUE]

\* a caller of updateSearchCount other than fetchMovies
DirectCaller ==
  [caller |-> "direct", query |-> "", endpoint |-> "", pc |-> "call",
   results |-> <<>>, term |-> "", movie |-> NoMovie, req |-> NoReq, calls |-> <<>>,
   alone |-> FALSE]

Remove(s, i) == SubSeq(s, 1, i - 1) \o SubSeq(s, i + 1, Len(s))

Settled(run, outcome, via) ==
  [outcome |-> outcome, via |-> via, query |-> run.query,
   results |-> run.results, calls |-> run.calls, alone |-> run.alone]

RECURSIVE Sum(_, _)
Sum(f, S) == IF S = {} THEN 0
             ELSE LET x == CHOOSE y \in S : TRUE IN f[x] + Sum(f, S \ {x})
TotalTracked == Sum(tracked, BurstTerms)

\* fetchMovies without the setErrorMessage("") of App.jsx 49
FetchMoviesKeepsError(query) ==
  /\ isLoading' = TRUE
  /\ errorMessage' = errorMessage
  /\ runs' = Append([j \in 1..Len(runs) |-> [runs[j] EXCEPT !.alone = FALSE]],
                     [NewRun(query) EXCEPT !.alone = (runs = <<>>)])
  /\ burstFetches' = burstFetches + 1

\* App.jsx 46-60: fetchMovies(query) up to its first await
FetchMovies(query) ==
  /\ isLoading' = TRUE
  /\ errorMessage' = ""
  /\ runs' = Append([j \in 1..Len(runs) |-> [runs[j] EXCEPT !.alone = FALSE]],
                     [NewRun(query) EXCEPT !.alone = (runs = <<>>)])
  /\ burstFetches' = burstFetches + 1

\* setMovieList guarded by a check that the run's query is still the active term
SetMovieListIfCurrent(run, results) ==
  movieList' = (IF run.query = debouncedSearchTerm THEN results ELSE movieList)

\* App.jsx 78: setMovieList(data.results || []), whichever run is asking
SetMovieList(run, results) == movieList' = results

\* the catch block without a finally block after it
CatchFinallyKeepsLoading(i, via) ==
  /\ errorMessage' = FETCH_ERROR
  /\ isLoading' = isLoading
  /\ runs' = Remove(runs, i)
  /\ settled' = Settled(runs[i], "error", via)

\* App.jsx 85-93: the catch block followed by finally
CatchFinally(i, via) ==
  /\ errorMessage' = FETCH_ERROR
  /\ isLoading' = FALSE
  /\ runs' = Remove(runs, i)
  /\ settled' = Settled(runs[i], "error", via)

\* App.jsx 89-93: finally, reached without an exception
Finally(i, run, via) ==
  /\ isLoading' = FALSE
  /\ runs' = Remove(runs, i)
  /\ settled' = Settled(run, "ok", via)

\* updateSearchCount has returned normally: fetchMovies resumes after its
\* await (App.jsx 83-93), any other caller just gets the resolved promise
Resume(i, via) ==
  IF runs[i].caller = "fetchMovies"
    THEN /\ Finally(i, runs[i], via)
         /\ UNCHANGED errorMessage
    ELSE /\ runs' = Remove(runs, i)
         /\ settled' = Settled(runs[i], "ok", via)
         /\ UNCHANGED <<errorMessage, isLoading>>

\* ShouldTrack without the test of the query
ShouldTrackAnyQuery(query, results) == Len(results) > 0

\* App.jsx 82: query && data.results.length > 0
ShouldTrack(query, results) == Truthy(query) /\ Len(results) > 0

\* TrackArgs passing the last result instead of the first
TrackArgsLast(query, results) == [term |-> query, movie |-> results[Len(results)]]

\* App.jsx 83: the arguments fetchMovies passes to updateSearchCount
TrackArgs(query, results) == [term |-> query, movie |-> results[1]]

\* appwrite.js 33-46: updateSearchCount(searchTerm, movie) up to its first
\* await: the listDocuments request is in flight
UpdateSearchCount(run, term, movie) ==
  [run EXCEPT !.pc = "list", !.term = term, !.movie = movie,
              !.calls = Append(@, [term |-> term, movie |-> movie])]

\* TrackFailure without the try/catch of updateSearchCount: the failure reaches
\* the catch block of fetchMovies
TrackFailureRethrown(i, via) == CatchFinally(i, via)

\* appwrite.js 77-81: a store failure is caught and logged inside
\* updateSearchCount, which then returns normally
TrackFailure(i, via) == Resume(i, via)

\* ------------------------------------------------------------ actions
\* the collection as earlier sessions may have left it
PriorStores ==
  {<<>>, <<NewDocument(1, "a b", m1)>>}

Init ==
  /\ mounted = FALSE
  /\ searchTerm = ""
  /\ debouncedSearchTerm = ""
  /\ errorMessage = ""
  /\ movieList = <<>>
  /\ isLoading = FALSE
  /\ effectTerm = ""
  /\ timer = NoTimer
  /\ runs = <<>>
  /\ documents \in PriorStores
  /\ nextId = Len(documents) + 1
  /\ trending = NotCalled
  /\ quiet = DELAY
  /\ burstFetches = 0
  /\ burstLen = 0
  /\ burstTime = 0
  /\ tracked = [t \in BurstTerms |-> 0]
  /\ settled = NoRun

\* a collection that is still empty
InitFresh == Init /\ documents = <<>>

\* App.jsx 41 and 100-102: the mount effects. useDebounce arms its timeout and
\* the effect calls fetchMovies(debouncedSearchTerm)
Mount ==
  /\ ~mounted
  /\ mounted' = TRUE
  /\ timer' = DELAY
  /\ effectTerm' = debouncedSearchTerm
  /\ FetchMovies(debouncedSearchTerm)
  /\ UNCHANGED <<searchTerm, debouncedSearchTerm, movieList, documents, nextId,
                 trending, quiet, burstLen, burstTime, tracked, settled>>

\* Keystroke with a timeout that is armed only when none is pending
KeystrokeKeepsTimer(t) ==
  /\ mounted
  /\ t # searchTerm
  /\ searchTerm' = t
  /\ timer' = (IF timer = NoTimer THEN DELAY ELSE timer)
  /\ quiet' = 0
  /\ burstFetches' = 0
  /\ burstLen' = (IF quiet < DELAY THEN Min(2, burstLen + 1) ELSE 1)
  /\ burstTime' = (IF quiet < DELAY THEN burstTime ELSE 0)
  /\ UNCHANGED <<mounted, debouncedSearchTerm, errorMessage, movieList, isLoading,
                 effectTerm, runs, documents, nextId, trending, tracked, settled>>

\* App.jsx 117 with 41: a keystroke sets searchTerm; the changed dependency
\* makes useDebounce clear the pending timeout and arm a new one
Keystroke(t) ==
  /\ mounted
  /\ t # searchTerm
  /\ searchTerm' = t
  /\ timer' = DELAY
  /\ quiet' = 0
  /\ burstFetches' = 0
  /\ burstLen' = (IF quiet < DELAY THEN Min(2, burstLen + 1) ELSE 1)
  /\ burstTime' = (IF quiet < DELAY THEN burstTime ELSE 0)
  /\ UNCHANGED <<mounted, debouncedSearchTerm, errorMessage, movieList, isLoading,
                 effectTerm, runs, documents, nextId, trending, tracked, settled>>

\* time passes, never beyond the expiry of the pending timeout; the render that
\* runs a pending effect is queued ahead of every later timeout, so no time
\* step is taken while the effect is pending
Tick(d) ==
  /\ timer # NoTimer
  /\ d <= timer
  /\ effectTerm = debouncedSearchTerm
  /\ timer' = timer - d
  /\ quiet' = Min(DELAY, quiet + d)
  /\ burstTime' = (IF burstLen = 0 THEN 0 ELSE Min(DELAY, burstTime + d))
  /\ UNCHANGED <<mounted, uiVars, effectTerm, runs, documents, nextId, trending,
                 burstFetches, burstLen, tracked, settled>>

\* DebounceFire whose state update makes the effect run again even when the
\* value set is the one already held
DebounceFireForcesEffect ==
  /\ timer = 0
  /\ timer' = NoTimer
  /\ debouncedSearchTerm' = searchTerm
  /\ effectTerm' = Null
  /\ burstTime' = 0
  /\ burstFetches' = 0
  /\ UNCHANGED <<mounted, searchTerm, errorMessage, movieList, isLoading, runs,
                 documents, nextId, trending, quiet, burstLen, tracked, settled>>

\* App.jsx 41: the timeout expires and its callback calls
\* setDebouncedSearchTerm(searchTerm); the render and the effect follow in a
\* later task (FetchEffect)
DebounceFire ==
  /\ timer = 0
  /\ timer' = NoTimer
  /\ debouncedSearchTerm' = searchTerm
  /\ burstTime' = 0
  /\ burstFetches' = 0
  /\ UNCHANGED <<mounted, searchTerm, errorMessage, movieList, isLoading, effectTerm,
                 runs, documents, nextId, trending, quiet, burstLen, tracked, settled>>

\* App.jsx 100-102: after a render in which debouncedSearchTerm differs from
\* the value the effect last saw, the effect calls fetchMovies(debouncedSearchTerm)
FetchEffect ==
  /\ mounted
  /\ effectTerm # debouncedSearchTerm
  /\ Len(runs) < MaxInFlight
  /\ effectTerm' = debouncedSearchTerm
  /\ FetchMovies(debouncedSearchTerm)
  /\ UNCHANGED <<mounted, searchTerm, debouncedSearchTerm, movieList, timer,
                 documents, nextId, trending, quiet, burstLen, burstTime,
                 tracked, settled>>

\* App.jsx 60-64: fetch() settles
FetchResponds(i, resp) ==
  /\ i \in 1..Len(runs)
  /\ runs[i].pc = "fetch"
  /\ IF resp.kind = "reject" \/ ~resp.ok
       THEN CatchFinally(i, IF resp.kind = "reject" THEN "network" ELSE "http")
       ELSE /\ runs' = [runs EXCEPT ![i].pc = "json"]
            /\ UNCHANGED <<errorMessage, isLoading, settled>>
  /\ UNCHANGED <<mounted, searchTerm, debouncedSearchTerm, movieList, timer,
                 documents, nextId, trending, effectTerm, histVars, tracked>>

\* App.jsx 66-93: response.json() settles
JsonResolves(i, body) ==
  /\ i \in 1..Len(runs)
  /\ runs[i].pc = "json"
  /\ LET run == [runs[i] EXCEPT !.results = body.results]
         query == run.query
     IN IF body.kind = "reject"
          THEN /\ CatchFinally(i, "json")
               /\ UNCHANGED <<movieList, tracked>>
        ELSE IF body.Response = "False"
          THEN /\ errorMessage' = (IF Truthy(body.Error) THEN body.Error ELSE FAILED_FETCH)
               /\ movieList' = <<>>
               /\ isLoading' = FALSE
               /\ runs' = Remove(runs, i)
               /\ settled' = Settled(run, "error", "responseFalse")
               /\ UNCHANGED tracked
        ELSE /\ SetMovieList(run, body.results)
             /\ IF Truthy(query) /\ ~body.hasResults
                  THEN /\ CatchFinally(i, "typeError")
                       /\ UNCHANGED tracked
                ELSE IF ShouldTrack(query, body.results)
                  THEN /\ TotalTracked < MaxTracked
                       /\ runs' = [runs EXCEPT
                                     ![i] = UpdateSearchCount(run,
                                              TrackArgs(query, body.results).term,
                                              TrackArgs(query, body.results).movie)]
                       /\ tracked' = [tracked EXCEPT ![query] = @ + 1]
                       /\ UNCHANGED <<errorMessage, isLoading, settled>>
                ELSE /\ Finally(i, run, "untracked")
                     /\ UNCHANGED <<errorMessage, tracked>>
  /\ UNCHANGED <<mounted, searchTerm, debouncedSearchTerm, timer,
                 documents, nextId, trending, effectTerm, histVars>>

\* appwrite.js 33: updateSearchCount called by a caller other than fetchMovies,
\* at most limit calls in a behaviour
Call(term, movie, limit) ==
  /\ Len(runs) < MaxInFlight
  /\ TotalTracked < limit
  /\ runs' = Append(runs, UpdateSearchCount(DirectCaller, term, movie))
  /\ tracked' = [tracked EXCEPT ![term] = @ + 1]
  /\ UNCHANGED <<mounted, uiVars, timer, documents, nextId, trending, effectTerm, histVars, settled>>

DirectCall(term, movie) == Call(term, movie, MaxCalls)

\* appwrite.js 38-76: listDocuments settles; on success the update or the
\* create request is issued
TrackList(i, ok) ==
  /\ i \in 1..Len(runs)
  /\ runs[i].pc = "list"
  /\ IF ~ok
       THEN /\ TrackFailure(i, "listFailed")
            /\ UNCHANGED nextId
       ELSE LET found == EqualSearchTerm(documents, runs[i].term)
            IN /\ IF found # {}
                    THEN \E doc \in found :
                           /\ runs' = [runs EXCEPT ![i].pc = "write",
                                         ![i].req = [NoReq EXCEPT !.op = "update",
                                                       !.id = doc.id,
                                                       !.count = doc.count + 1]]
                           /\ UNCHANGED nextId
                    ELSE /\ runs' = [runs EXCEPT ![i].pc = "write",
                                       ![i].req = [NoReq EXCEPT !.op = "create",
                                                     !.id = nextId,
                                                     !.data = NewDocument(nextId,
                                                                runs[i].term, runs[i].movie)]]
                         /\ nextId' = nextId + 1
               /\ UNCHANGED <<errorMessage, isLoading, settled>>
  /\ UNCHANGED <<mounted, searchTerm, debouncedSearchTerm, movieList, timer,
                 documents, trending, effectTerm, histVars, tracked>>

\* appwrite.js 55-76: updateDocument / createDocument settles
TrackWrite(i, ok) ==
  /\ i \in 1..Len(runs)
  /\ runs[i].pc = "write"
  /\ IF ~ok
       THEN /\ TrackFailure(i, "writeFailed")
            /\ UNCHANGED documents
       ELSE /\ documents' = (IF runs[i].req.op = "update"
                               THEN UpdateDocument(documents, runs[i].req.id, runs[i].req.count)
                               ELSE CreateDocument(documents, runs[i].req.data))
            /\ Resume(i, "tracked")
  /\ UNCHANGED <<mounted, searchTerm, debouncedSearchTerm, movieList, timer,
                 nextId, trending, effectTerm, histVars, tracked>>

\* TrendingResults with Query.limit off by one
TrendingResultsOffByOne(docs) ==
  {Prefix(s, TRENDING_LIMIT + 1) : s \in OrderDescCount(Range(docs))}

\* appwrite.js 86-89: listDocuments with Query.limit(5), Query.orderDesc("count")
TrendingResults(docs) ==
  {Prefix(s, TRENDING_LIMIT) : s \in OrderDescCount(Range(docs))}

\* GetTrendingMovies without its try/catch
GetTrendingMoviesThrows(ok) ==
  /\ trending = NotCalled
  /\ IF ok
       THEN \E r \in TrendingResults(documents) :
              trending' = [status |-> "returned", defined |-> TRUE, value |-> r]
       ELSE trending' = [status |-> "threw", defined |-> FALSE, value |-> <<>>]
  /\ UNCHANGED <<mounted, uiVars, timer, runs, documents, nextId,
                 effectTerm, histVars, tracked, settled>>

\* appwrite.js 84-94: getTrendingMovies, called once in a behaviour (the
\* function keeps nothing between calls)
GetTrendingMovies(ok) ==
  /\ trending = NotCalled
  /\ IF ok
       THEN \E r \in TrendingResults(documents) :
              trending' = [status |-> "returned", defined |-> TRUE, value |-> r]
       ELSE trending' = [status |-> "returned", defined |-> FALSE, value |-> <<>>]
  /\ UNCHANGED <<mounted, uiVars, timer, runs, documents, nextId,
                 effectTerm, histVars, tracked, settled>>

\* ------------------------------------------------------ specifications
\* the App component: mount, typing, the debounce timer, fetchMovies runs
Next ==
  \/ Mount
  \/ \E t \in Terms : Keystroke(t)
  \/ Tick(DELAY)
  \/ DebounceFire
  \/ FetchEffect
  \/ \E i \in 1..MaxInFlight, resp \in Responses : FetchResponds(i, resp)
  \/ \E i \in 1..MaxInFlight, body \in Bodies : JsonResolves(i, body)
  \/ \E i \in 1..MaxInFlight, ok \in BOOLEAN : TrackList(i, ok)
  \/ \E i \in 1..MaxInFlight, ok \in BOOLEAN : TrackWrite(i, ok)

Spec == Init /\ [][Next]_vars

\* the debounce on its own: any of BurstTerms is typed, and the metadata API
\* answers with a failure or with a body that leads to no tracking call
UntrackedBodies == {b \in Bodies : Len(b.results) = 0}

NextDebounce ==
  \/ Mount
  \/ \E t \in BurstTerms : Keystroke(t)
  \/ \E d \in TickSteps : Tick(d)
  \/ DebounceFire
  \/ FetchEffect
  \/ \E i \in 1..MaxInFlight, resp \in Responses : FetchResponds(i, resp)
  \/ \E i \in 1..MaxInFlight, body \in UntrackedBodies : JsonResolves(i, body)

SpecDebounce == Init /\ [][NextDebounce]_vars

\* appwrite.js on its own: updateSearchCount called with any term and movie
NextTracker ==
  \/ \E t \in CallTerms, m \in Movies : DirectCall(t, m)
  \/ \E i \in 1..MaxInFlight, ok \in BOOLEAN : TrackList(i, ok)
  \/ \E i \in 1..MaxInFlight, ok \in BOOLEAN : TrackWrite(i, ok)

SpecTracker == InitFresh /\ [][NextTracker]_vars

\* the same with a store whose operations all succeed, and calls that differ
\* in the term only
NextReliable ==
  \/ \E t \in CallTerms : Call(t, m1, MaxRaceCalls)
  \/ \E i \in 1..MaxInFlight : TrackList(i, TRUE)
  \/ \E i \in 1..MaxInFlight : TrackWrite(i, TRUE)

SpecReliable == InitFresh /\ [][NextReliable]_vars

\* getTrendingMovies on a collection left by earlier sessions
RECURSIVE TermName(_)
TermName(i) == IF i = 0 THEN "t" ELSE TermName(i - 1) \o "x"

StoredDocument(i, c) ==
  [id |-> i, searchTerm |-> TermName(i), count |-> c, movie_id |-> i,
   poster_url |-> Null]

Stores ==
  UNION {{[i \in 1..n |-> StoredDocument(i, cs[i])] : cs \in [1..n -> 1..MaxCount]} :
           n \in 0..MaxStoreLen}

InitTrending ==
  /\ mounted = FALSE
  /\ searchTerm = ""
  /\ debouncedSearchTerm = ""
  /\ errorMessage = ""
  /\ movieList = <<>>
  /\ isLoading = FALSE
  /\ effectTerm = ""
  /\ timer = NoTimer
  /\ runs = <<>>
  /\ documents \in Stores
  /\ nextId = Len(documents) + 1
  /\ trending = NotCalled
  /\ quiet = DELAY
  /\ burstFetches = 0
  /\ burstLen = 0
  /\ burstTime = 0
  /\ tracked = [t \in BurstTerms |-> 0]
  /\ settled = NoRun

NextTrending == \E ok \in BOOLEAN : GetTrendingMovies(ok)

SpecTrending == InitTrending /\ [][NextTrending]_vars

\* ------------------------------------------------------------- claims
RecordsOf(t) == {d \in Range(documents) : d.searchTerm = t}
MovieOf(d) == CHOOSE m \in Movies : m.id = d.movie_id
DISCOVER_URL == "https://api.themoviedb.org/3//discover/movie?sort_by=popularity.desc"
SEARCH_URL_PREFIX == "https://api.themoviedb.org/3//search/movie?query="
IsSettleStep == Len(runs') < Len(runs)

\* C1: once every tracking call has returned, each term tracked at least once
\* has exactly one record, whose count is the number of calls made for it.
C1_OneRecordCountsCalls ==
  runs = <<>> =>
    \A t \in BurstTerms :
      tracked[t] >= 1 =>
        /\ Cardinality(RecordsOf(t)) = 1
        /\ \A d \in RecordsOf(t) : d.count = tracked[t]

\* C2: a failed list, update or create inside updateSearchCount is swallowed:
\* the fetchMovies run settles normally, the step leaves errorMessage and
\* movieList as they were, and a run no other run overlapped ends with an
\* empty errorMessage and its own results in movieList.
C2_TrackerFailureSwallowed ==
  [][(IsSettleStep /\ settled'.via \in {"listFailed", "writeFailed"}) =>
       /\ settled'.outcome = "ok"
       /\ isLoading' = FALSE
       /\ errorMessage' = errorMessage
       /\ movieList' = movieList
       /\ settled'.alone => (errorMessage' = "" /\ movieList' = settled'.results)]_vars

C2_Witness ==
  /\ settled.via = "writeFailed"
  /\ settled.alone
  /\ settled.outcome = "ok"
  /\ errorMessage = ""
  /\ movieList = <<m1, m2>>
  /\ ~isLoading
  /\ \E d \in Range(documents) : d.searchTerm = settled.query

\* C3 as stated: every fetch after mount is issued after 500ms without a
\* keystroke and is for the term typed last, and the expiry of the timeout
\* after a burst makes exactly one fetch due.
C3_ExactlyOneFetchPerBurst ==
  [][/\ (mounted /\ Len(runs') > Len(runs)) =>
          (quiet = DELAY /\ runs'[Len(runs')].query = searchTerm)
     /\ (burstLen >= 1 /\ timer = 0 /\ timer' = NoTimer) =>
          effectTerm' # debouncedSearchTerm']_vars

\* C3 amended: the timeout fires only after 500ms without a keystroke, starts
\* no fetch itself and sets debouncedSearchTerm to the term typed last; the
\* firing after a burst makes a fetch due exactly when that term differs from
\* the active term; every fetch after mount is the one due, is for
\* debouncedSearchTerm, and is the only one since the last keystroke or firing.
C3_OneFetchIfTermChanged ==
  [][/\ (timer = 0 /\ timer' = NoTimer) =>
          /\ quiet = DELAY
          /\ debouncedSearchTerm' = searchTerm
          /\ runs' = runs
     /\ (burstLen >= 1 /\ timer = 0 /\ timer' = NoTimer) =>
          ((effectTerm' # debouncedSearchTerm') <=> (searchTerm # debouncedSearchTerm))
     /\ (mounted /\ Len(runs') > Len(runs)) =>
          /\ effectTerm # debouncedSearchTerm
          /\ runs'[Len(runs')].query = debouncedSearchTerm
          /\ effectTerm' = debouncedSearchTerm
          /\ debouncedSearchTerm' = debouncedSearchTerm
     /\ burstFetches' <= 1]_vars

C3_Witness ==
  /\ burstLen = 2
  /\ timer = NoTimer
  /\ quiet = DELAY
  /\ burstFetches = 1
  /\ searchTerm = "a b"
  /\ debouncedSearchTerm = "a b"
  /\ effectTerm = "a b"
  /\ \E i \in 1..Len(runs) : runs[i].query = "a b"
  /\ \A i \in 1..Len(runs) : runs[i].query # "a"

\* C4: a non-OK HTTP status settles the run (one that no other run overlapped)
\* with isLoading false, a non-empty errorMessage, an empty movieList and no
\* tracking call.
C4_HttpErrorClearsList ==
  [][(IsSettleStep /\ settled'.via = "http" /\ settled'.alone) =>
       /\ isLoading' = FALSE
       /\ errorMessage' # ""
       /\ movieList' = <<>>
       /\ settled'.calls = <<>>
       /\ tracked' = tracked
       /\ documents' = documents]_vars

\* C5: getTrendingMovies returns at most 5 records of the collection, counts
\* non-increasing, and no record left out has a greater count than one returned.
C5_TrendingTopFive ==
  (trending.status = "returned" /\ trending.defined) =>
    LET v == trending.value IN
      /\ Len(v) <= 5
      /\ Range(v) \subseteq Range(documents)
      /\ \A i, j \in 1..Len(v) : i < j => (v[i].count >= v[j].count /\ v[i] # v[j])
      /\ \A d \in Range(documents) \ Range(v) :
           /\ Len(v) = 5
           /\ \A r \in Range(v) : d.count <= r.count

C5_Witness ==
  /\ trending.defined
  /\ Len(documents) = 6
  /\ Len(trending.value) = 5
  /\ trending.value[1].count > trending.value[5].count
  /\ \E d \in Range(documents) \ Range(trending.value) : d.count = trending.value[5].count

\* C6: a run started with the empty query requests the discovery endpoint, a
\* run started with a non-empty query the search endpoint with that query
\* (URI-encoded), and the run started on mount is a discovery request.
C6_EndpointByQuery ==
  [][Len(runs') > Len(runs) =>
       LET r == runs'[Len(runs')] IN
         /\ r.query = "" => r.endpoint = DISCOVER_URL
         /\ r.query # "" =>
              /\ SubSeq(r.endpoint, 1, Len(SEARCH_URL_PREFIX)) = SEARCH_URL_PREFIX
              /\ Len(r.endpoint) > Len(SEARCH_URL_PREFIX)
         /\ r.query = "a b" => r.endpoint = SEARCH_URL_PREFIX \o "a%20b"
         /\ ~mounted => r.endpoint = DISCOVER_URL]_vars

C6_Witness ==
  /\ Len(runs) = 2
  /\ runs[1].endpoint = DISCOVER_URL
  /\ runs[1].query = ""
  /\ runs[2].query = "a b"
  /\ runs[2].endpoint = SEARCH_URL_PREFIX \o "a%20b"

\* C7 as stated: a stored poster_url is null when the movie's poster_path is
\* null or absent, and a non-null one is the image base URL followed by the path.
C7_PosterUrlBaseThenPath ==
  \A d \in Range(documents) :
    LET p == MovieOf(d).poster_path IN
      /\ p \in {Null, Undefined} => d.poster_url = Null
      /\ d.poster_url # Null =>
           (p \notin {Null, Undefined} /\ d.poster_url = TMDB_IMAGE_BASE_URL \o p)

\* C7 amended: a stored poster_url is null when the movie's poster_path is null
\* or absent, and a non-null one is the image base URL, a "/" and the path.
C7_PosterUrlBaseSlashPath ==
  \A d \in Range(documents) :
    LET p == MovieOf(d).poster_path IN
      /\ p \in {Null, Undefined} => d.poster_url = Null
      /\ d.poster_url # Null =>
           (p \notin {Null, Undefined} /\ d.poster_url = TMDB_IMAGE_BASE_URL \o "/" \o p)

C7_Witness ==
  /\ \E d \in Range(documents) :
       d.movie_id = 1 /\ d.poster_url = "https://image.tmdb.org/t/p/w500//p1.jpg"
  /\ \E d \in Range(documents) : d.movie_id = 2 /\ d.poster_url = Null
  /\ \E d \in Range(documents) : d.movie_id = 3 /\ d.poster_url = Null

\* C8: getTrendingMovies always returns; when listDocuments fails the result is
\* undefined, and the call changes nothing in the collection.
C8_TrendingNeverThrowsNorWrites ==
  [][/\ trending'.status = "returned"
     /\ trending'.defined \/ trending'.value = <<>>
     /\ documents' = documents
     /\ nextId' = nextId]_vars

C8_Witness ==
  /\ trending.status = "returned"
  /\ ~trending.defined
  /\ Len(documents) > 0

\* C9: a fetch answered with HTTP success and zero results settles with a
\* non-empty errorMessage and an empty movieList.
C9_ZeroResultsIsError ==
  [][(IsSettleStep /\ settled'.via = "untracked" /\ settled'.results = <<>>) =>
       /\ errorMessage' # ""
       /\ movieList' = <<>>]_vars

\* C10: a run for a non-empty query whose body has at least one result puts the
\* results in movieList and calls updateSearchCount once, with the query and
\* results[0]; no other run makes a tracking call.
C10_CallsOf(run) ==
  IF run.query # "" /\ Len(run.results) > 0
    THEN <<[term |-> run.query, movie |-> Head(run.results)]>>
    ELSE <<>>

C10_TrackedOnceWithFirstResult ==
  /\ [](/\ settled.calls = C10_CallsOf(settled)
        /\ \A i \in 1..Len(runs) : runs[i].calls = C10_CallsOf(runs[i]))
  /\ [][\A i \in 1..Len(runs) :
          (Len(runs') = Len(runs) /\ runs[i].pc = "json" /\ runs'[i].pc = "list") =>
            /\ movieList' = runs'[i].results
            /\ Len(runs'[i].results) > 0
            /\ tracked'[runs[i].query] = tracked[runs[i].query] + 1]_vars

C10_Witness ==
  /\ settled.via = "tracked"
  /\ settled.query = "a b"
  /\ settled.results = <<m1, m2>>
  /\ settled.calls = <<[term |-> "a b", movie |-> m1]>>
  /\ settled.alone
  /\ movieList = <<m1, m2>>

\* C11: the step that starts a fetchMovies run sets isLoading to TRUE and
\* errorMessage to "" while the new run is still before its request has been
\* answered, so the state after the start shows no error message, whatever
\* errorMessage was before.
C11_StartClearsError ==
  [][Len(runs') > Len(runs) =>
       /\ isLoading' = TRUE
       /\ errorMessage' = ""
       /\ runs'[Len(runs')].pc = "fetch"
       /\ runs'[Len(runs')].results = <<>>]_vars

\* a run ended with an error and the next run, started with no other run in
\* flight, is waiting for its response
C11_Witness ==
  /\ settled.outcome = "error"
  /\ Len(runs) = 1
  /\ runs[1].alone
  /\ runs[1].pc = "fetch"
  /\ isLoading
  /\ errorMessage = ""

\* C12: updateSearchCount decides between create and update from the list it
\* read and never looks again: the request is an update to (count read) + 1 of
\* a record found by the list, or a create when the list found none, and the
\* write applies that request to the collection as it is by then, appending a
\* record even if one with the same searchTerm exists and storing the count
\* even if the record's count has changed. Hence interleaved calls reach a state
\* with two records for one searchTerm and lose an increment (C12_Witness).
C12_WriteAppliesStaleRead ==
  [][\A i \in 1..Len(runs) :
       /\ (Len(runs') = Len(runs) /\ runs[i].pc = "list" /\ runs'[i].pc = "write") =>
            IF runs'[i].req.op = "update"
              THEN \E d \in RecordsOf(runs[i].term) :
                     /\ runs'[i].req.id = d.id
                     /\ runs'[i].req.count = d.count + 1
              ELSE /\ runs'[i].req.op = "create"
                   /\ RecordsOf(runs[i].term) = {}
                   /\ runs'[i].req.data.searchTerm = runs[i].term
                   /\ runs'[i].req.data.count = 1
       /\ (runs[i].pc = "write" /\ runs' = Remove(runs, i) /\ settled'.via = "tracked") =>
            IF runs[i].req.op = "create"
              THEN documents' = Append(documents, runs[i].req.data)
              ELSE /\ Len(documents') = Len(documents)
                   /\ \A k \in 1..Len(documents) :
                        documents'[k] = IF documents[k].id = runs[i].req.id
                                          THEN [documents[k] EXCEPT !.count = runs[i].req.count]
                                          ELSE documents[k]]_vars

\* four calls for "a" have returned, no store operation failed: two of them
\* created a record each, and the two records' counts add up to 3, not 4
C12_Witness ==
  /\ runs = <<>>
  /\ tracked["a"] = 4
  /\ Cardinality(RecordsOf("a")) = 2
  /\ \E d, e \in RecordsOf("a") : d.id # e.id /\ d.count = 2 /\ e.count = 1

\* C13: a run applies its outcome without checking that its query is still the
\* active term: a body that is not an error sets movieList to that run's
\* results, and a run that ends in the catch block sets errorMessage, also when
\* the run's query differs from debouncedSearchTerm. Hence a run that completes
\* after a later one overwrites it (C13_Witness).
C13_OutcomeAppliedWhateverTheTerm ==
  [][\A i \in 1..Len(runs) :
       /\ (runs[i].pc = "json" /\ Len(runs') = Len(runs) /\ runs'[i].pc = "list") =>
            movieList' = runs'[i].results
       /\ (runs[i].pc = "json" /\ runs' = Remove(runs, i) /\ settled'.via = "untracked") =>
            movieList' = settled'.results
       /\ (runs' = Remove(runs, i) /\ settled'.outcome = "error"
             /\ settled'.via # "responseFalse") =>
            errorMessage' = FETCH_ERROR]_vars

\* nothing is in flight or pending, the active term is "a b", and the list on
\* screen is the one of the run for "", which was the last to complete
C13_Witness ==
  /\ runs = <<>>
  /\ timer = NoTimer
  /\ effectTerm = debouncedSearchTerm
  /\ debouncedSearchTerm = "a b"
  /\ searchTerm = "a b"
  /\ settled.query = ""
  /\ settled.outcome = "ok"
  /\ ~settled.alone
  /\ settled.results = <<m1, m2>>
  /\ movieList = <<m1, m2>>
  /\ ~isLoading

\* C14 as stated: every keystroke re-arms the timeout with the full DELAY, and
\* debouncedSearchTerm changes, or a fetch is issued after the mount, only in a
\* step taken after DELAY ms without a keystroke.
C14_NoFireWhileTyping ==
  /\ []((burstLen >= 1 /\ timer # NoTimer) => timer = DELAY - quiet)
  /\ [][searchTerm' # searchTerm =>
          /\ timer' = DELAY
          /\ debouncedSearchTerm' = debouncedSearchTerm
          /\ runs' = runs]_vars
  /\ [][debouncedSearchTerm' # debouncedSearchTerm => (quiet = DELAY /\ timer = 0)]_vars
  /\ [][(mounted /\ Len(runs') > Len(runs)) => quiet = DELAY]_vars

\* C14 amended: every keystroke re-arms the timeout with the full DELAY, however
\* long the burst has lasted; debouncedSearchTerm changes only in a step taken
\* after DELAY ms without a keystroke; and a fetch issued after the mount less
\* than DELAY ms after a keystroke is the one that was already due, for the
\* debouncedSearchTerm set by the firing before that keystroke.
C14_NoUpdateWhileTyping ==
  /\ []((burstLen >= 1 /\ timer # NoTimer) => timer = DELAY - quiet)
  /\ [][searchTerm' # searchTerm =>
          /\ timer' = DELAY
          /\ debouncedSearchTerm' = debouncedSearchTerm
          /\ effectTerm' = effectTerm
          /\ runs' = runs]_vars
  /\ [][debouncedSearchTerm' # debouncedSearchTerm => (quiet = DELAY /\ timer = 0)]_vars
  /\ [][(mounted /\ Len(runs') > Len(runs)) =>
          /\ effectTerm # debouncedSearchTerm
          /\ runs'[Len(runs')].query = debouncedSearchTerm
          /\ debouncedSearchTerm' = debouncedSearchTerm]_vars

\* DELAY ms after the first keystroke of a burst the second keystroke's timeout
\* is still pending, the active term is still the old one and no fetch was issued
C14_Witness ==
  /\ burstLen = 2
  /\ burstTime = DELAY
  /\ quiet = 250
  /\ timer = 250
  /\ searchTerm = "a b"
  /\ debouncedSearchTerm = ""
  /\ burstFetches = 0

\* C15: when the list finds a record for the term, updateSearchCount issues an
\* update of that record to (count read) + 1 and draws no new id; when the
\* update is applied, the collection keeps its length, the record keeps its id,
\* searchTerm, movie_id and poster_url and gets the requested count, and every
\* other record is unchanged, whatever movie the call was given.
C15_UpdateWritesCountOnly ==
  [][\A i \in 1..Len(runs) :
       /\ (Len(runs') = Len(runs) /\ runs[i].pc = "list" /\ runs'[i].pc = "write"
             /\ RecordsOf(runs[i].term) # {}) =>
            /\ runs'[i].req.op = "update"
            /\ \E d \in RecordsOf(runs[i].term) :
                 runs'[i].req.id = d.id /\ runs'[i].req.count = d.count + 1
            /\ nextId' = nextId
            /\ documents' = documents
       /\ (runs[i].pc = "write" /\ runs[i].req.op = "update"
             /\ runs' = Remove(runs, i) /\ settled'.via = "tracked") =>
            /\ Len(documents') = Len(documents)
            /\ nextId' = nextId
            /\ \A k \in 1..Len(documents) :
                 /\ documents'[k].id = documents[k].id
                 /\ documents'[k].searchTerm = documents[k].searchTerm
                 /\ documents'[k].movie_id = documents[k].movie_id
                 /\ documents'[k].poster_url = documents[k].poster_url
                 /\ documents'[k].count = IF documents[k].id = runs[i].req.id
                                            THEN runs[i].req.count
                                            ELSE documents[k].count]_vars

\* the record created for "a" with m1 has been updated by a call for "a" with
\* m2: it has count 2 and still the id and poster of m1
C15_Witness ==
  /\ runs = <<>>
  /\ tracked["a"] = 2
  /\ settled.via = "tracked"
  /\ settled.calls = <<[term |-> "a", movie |-> m2]>>
  /\ documents = <<[NewDocument(1, "a", m1) EXCEPT !.count = 2]>>

\* C16: every step in which a fetchMovies run settles, by whichever path, sets
\* isLoading to FALSE; and whenever no run is in flight isLoading is FALSE.
C16_SettleClearsLoading ==
  /\ [](runs = <<>> => isLoading = FALSE)
  /\ [][IsSettleStep =>
          /\ isLoading' = FALSE
          /\ settled'.via \in {"network", "http", "json", "responseFalse", "typeError",
                               "untracked", "listFailed", "writeFailed", "tracked"}]_vars

\* the only run there was has ended in the catch block on an HTTP error status
C16_Witness ==
  /\ runs = <<>>
  /\ settled.via = "http"
  /\ settled.outcome = "error"
  /\ settled.alone
  /\ errorMessage = FETCH_ERROR
  /\ isLoading = FALSE

\* C17: whenever a fetchMovies run is in flight, at its fetch, at its json or
\* in its awaited tracking call, isLoading is TRUE.
C17_InFlightImpliesLoading ==
  (\E i \in 1..Len(runs) : runs[i].caller = "fetchMovies") => isLoading = TRUE

\* C18: a fetchMovies run starts only in the mount step or by the effect after
\* debouncedSearchTerm has changed, and then for the new value; the effect
\* becomes due only by a firing of the timeout that changes debouncedSearchTerm;
\* a firing with searchTerm equal to debouncedSearchTerm makes no fetch due,
\* starts no run, makes no tracking call and leaves the UI state and the
\* collection alone.
C18_FetchOnlyOnChange ==
  /\ [][Len(runs') > Len(runs) =>
          \/ (~mounted /\ mounted')
          \/ /\ effectTerm # debouncedSearchTerm
             /\ effectTerm' = debouncedSearchTerm
             /\ runs'[Len(runs')].query = debouncedSearchTerm]_vars
  /\ [][(effectTerm = debouncedSearchTerm /\ effectTerm' # debouncedSearchTerm') =>
          (timer = 0 /\ debouncedSearchTerm' # debouncedSearchTerm)]_vars
  /\ [][(timer = 0 /\ timer' = NoTimer /\ searchTerm = debouncedSearchTerm) =>
          /\ effectTerm' = debouncedSearchTerm'
          /\ runs' = runs
          /\ tracked' = tracked
          /\ documents' = documents
          /\ UNCHANGED uiVars]_vars

\* the term was edited and restored within one burst, the timeout has fired,
\* and no fetch was issued since
C18_Witness ==
  /\ burstLen = 2
  /\ timer = NoTimer
  /\ effectTerm = debouncedSearchTerm
  /\ quiet = DELAY
  /\ searchTerm = debouncedSearchTerm
  /\ burstFetches = 0
  /\ runs = <<>>
  /\ TotalTracked = 0

\* C19: a run is inside updateSearchCount only if its query is non-empty and
\* its body had at least one result, and then for its own query; no tracking
\* call is ever made for the empty term and no record for it exists; and the
\* collection changes only by the write of such a run, to a record of its query.
C19_TrackOnlyNonEmptyWithResults ==
  /\ [](/\ tracked[""] = 0
        /\ RecordsOf("") = {}
        /\ \A i \in 1..Len(runs) :
             runs[i].pc \in {"list", "write"} =>
               /\ runs[i].query # ""
               /\ Len(runs[i].results) > 0
               /\ runs[i].term = runs[i].query)
  /\ [][tracked' # tracked =>
          \E i \in 1..Len(runs) :
            /\ runs[i].pc = "json"
            /\ runs'[i].pc = "list"
            /\ runs[i].query # ""
            /\ Len(runs'[i].results) > 0
            /\ tracked' = [tracked EXCEPT ![runs[i].query] = @ + 1]]_vars
  /\ [][documents' # documents =>
          \E i \in 1..Len(runs) :
            /\ runs[i].pc = "write"
            /\ runs[i].query # ""
            /\ Len(runs[i].results) > 0
            /\ \A k \in 1..Len(documents') :
                 (k > Len(documents) \/ documents'[k] # documents[k]) =>
                   documents'[k].searchTerm = runs[i].query]_vars

\* the discovery list has arrived with two movies and the run has ended
\* without a tracking call; the collection is still empty
C19_Witness ==
  /\ runs = <<>>
  /\ settled.query = ""
  /\ settled.via = "untracked"
  /\ settled.results = <<m1, m2>>
  /\ settled.calls = <<>>
  /\ settled.alone
  /\ movieList = <<m1, m2>>
  /\ TotalTracked = 0
  /\ documents = <<>>

====
